---- MODULE Spec2Model ----
(***************************************************************************)
(* wacli: the event pipeline of cli/main.go and cli/calls.go.              *)
(*   protocol event -> handleMessage / handleCallOffer -> saveMessage /    *)
(*   saveCall (bounded tables) -> broadcastMessage (peer registry).        *)
(***************************************************************************)
EXTENDS Integers, Sequences, FiniteSets, TLC

\* ---------------------------------------------------------------- constants
maxMessages == 200
trimToCount == 150

\* ------------------------------------------------------------------- bounds
\* appends applied by the store specification
MaxAppends == 3
\* protocol events delivered to the worker by the pipeline specification
MaxEvents == 2
\* protocol events delivered to the worker by the classifier specification
MaxClassified == 2
\* protocol events delivered to the worker by the content specification
MaxContent == 1
\* connections the listener accepts
MaxConns == 2
\* command lines the peers send
MaxLines == 2

Conns == 1..MaxConns

VARIABLES
    config,       \* App.config: IncludeStatusMessages, IncludeMutedMessages
    store,        \* client.Store: the own identities ID and LID
    messages,     \* table messages: its rows [id, ts], in index order
    calls,        \* table calls: its rows [id, ts], in index order
    msgSeq,       \* AUTOINCREMENT counter of messages
    callSeq,      \* AUTOINCREMENT counter of calls
    ret,          \* what the last saveMessage / saveCall did and returned
    nAppends,     \* appends applied so far (store specification)
    socketConns,  \* App.socketConns: the registered connections
    connPc,       \* per connection: position of its handleSocketConn goroutine
    peer,         \* per connection: what the remote end has done to it
    out,          \* per connection: the conn.Write calls made on it, in order
    regAt,        \* per connection: publishes started before it registered
    pc,           \* position of the event worker
    inbox,        \* the protocol event passed to handleEvent, until its handler has classified it
    data,         \* broadcastMessage: the marshalled record being written
    visited,      \* broadcastMessage: connections the range loop has visited
    nPub,         \* publishes started so far
    nEvents,      \* protocol events delivered so far
    verdict,      \* which return the handler of the last event took
    exited,       \* "no" while the process runs, else how it ended
    mainPc,       \* position of main
    paired,       \* client.Store.ID != nil: a prior session exists
    sent,         \* client.SendMessage calls made by the command loops
    nLines,       \* command lines the peers have sent
    lastLine      \* the last of them, and the connection it came on

storeVars == <<messages, calls, msgSeq, callSeq, ret>>
connVars == <<socketConns, connPc, peer, out, regAt>>
workerVars == <<pc, inbox, data, visited, nPub, nEvents, verdict, exited>>
ctlVars == <<mainPc, paired, sent, nLines, lastLine>>
vars == <<config, store, storeVars, nAppends, connVars, workerVars, ctlVars>>

Range(s) == {s[i] : i \in DOMAIN s}

\* --------------------------------------------------------------- identities
\* types.JID. String() is "user@server", or "user:device@server" for a device
\* other than 0; a string is modelled by the tuple of its parts, "" by <<>>.
MyJID == [user |-> "me", device |-> 1, server |-> "s.whatsapp.net"]
MyLID == [user |-> "melid", device |-> 1, server |-> "lid"]
OtherJID == [user |-> "other", device |-> 0, server |-> "s.whatsapp.net"]
EmptyJID == [user |-> "", device |-> 0, server |-> ""]

ToNonAD(jid) == [jid EXCEPT !.device = 0]
String(jid) == <<jid.user, jid.device, jid.server>>
IsEmpty(jid) == jid.server = ""

\* ------------------------------------------------------------ records, schema
\* struct Message: field name and json tag, in declaration order
MessageFields ==
    << [name |-> "Type", json |-> "type"],
       [name |-> "ID", json |-> "id"],
       [name |-> "Timestamp", json |-> "timestamp"],
       [name |-> "ChatJID", json |-> "chat_jid"],
       [name |-> "ChatName", json |-> "chat_name"],
       [name |-> "SenderJID", json |-> "sender_jid"],
       [name |-> "SenderName", json |-> "sender_name"],
       [name |-> "IsGroup", json |-> "is_group"],
       [name |-> "IsMuted", json |-> "is_muted"],
       [name |-> "IsReplyToMe", json |-> "is_reply_to_me"],
       [name |-> "Text", json |-> "text"] >>

\* struct Call
CallFields ==
    << [name |-> "ID", json |-> "id"],
       [name |-> "Timestamp", json |-> "timestamp"],
       [name |-> "CallID", json |-> "call_id"],
       [name |-> "CallerJID", json |-> "caller_jid"],
       [name |-> "CallerName", json |-> "caller_name"],
       [name |-> "IsGroup", json |-> "is_group"],
       [name |-> "GroupJID", json |-> "group_jid"],
       [name |-> "GroupName", json |-> "group_name"] >>

\* CREATE TABLE messages: its columns, and those that are NOT NULL with no
\* default and not the autoincrement key (an insert must name them)
MessagesSchema ==
    [ cols |-> {"id", "message_id", "timestamp", "chat_jid", "chat_name",
                "sender_jid", "sender_name", "is_group", "is_muted",
                "is_reply_to_me", "text"},
      required |-> {"timestamp", "chat_jid", "chat_name", "sender_jid",
                    "sender_name", "is_group", "is_muted", "is_reply_to_me",
                    "text"} ]

\* CREATE TABLE calls
CallsSchema ==
    [ cols |-> {"id", "timestamp", "call_id", "caller_jid", "caller_name",
                "is_group", "group_jid", "group_name"},
      required |-> {"timestamp", "call_id", "caller_jid", "caller_name",
                    "is_group", "group_jid", "group_name"} ]

\* buildInsertParams: the json tag of every field, skipping "" and "id"
buildInsertParams(fields) ==
    LET keep(f) == f.json # "" /\ f.json # "id"
        kept == SelectSeq(fields, keep)
    IN  [i \in DOMAIN kept |-> kept[i].json]

\* the engine accepts INSERT INTO t (columns) iff every column is one of the
\* table's and every NOT NULL column without default is named
InsertAccepted(columns, schema) ==
    /\ Range(columns) \subseteq schema.cols
    /\ schema.required \subseteq Range(columns)

\* ------------------------------------------------------------------- store
\* A table is the sequence of its rows [id, ts] in the order of its index on
\* timestamp (idx_messages_timestamp, idx_calls_timestamp): by timestamp, rows
\* of equal timestamp by id.
IndexBefore(a, b) == a.ts < b.ts \/ (a.ts = b.ts /\ a.id < b.id)

Insert(rows, r) ==
    LET lo(x) == IndexBefore(x, r)
        hi(x) == ~IndexBefore(x, r)
    IN  SelectSeq(rows, lo) \o <<r>> \o SelectSeq(rows, hi)

Ids(rows) == {rows[i].id : i \in DOMAIN rows}

\* the engine's choice among rows of equal timestamp in ORDER BY timestamp DESC
Ties == {"idDesc", "idAsc"}

\* a trim whose subquery has no LIMIT: it deletes nothing
TrimNoLimit(rows, keep, tie) == rows

\* a trim that orders by id instead of timestamp: it keeps the rows inserted last
TrimById(rows, keep, tie) ==
    LET later(r) == Cardinality({i \in DOMAIN rows : rows[i].id > r.id})
        kept(r) == later(r) < keep
    IN  SelectSeq(rows, kept)

\* DELETE FROM t WHERE id NOT IN (SELECT id FROM t ORDER BY timestamp DESC LIMIT keep)
Trim(rows, keep, tie) ==
    IF Len(rows) <= keep THEN rows
    ELSE LET th == rows[Len(rows) - keep + 1].ts
             gt(x) == x.ts > th
             eq(x) == x.ts = th
             above == SelectSeq(rows, gt)
             ties == SelectSeq(rows, eq)
             m == keep - Len(above)
         IN  IF tie = "idDesc"
             THEN SubSeq(ties, Len(ties) - m + 1, Len(ties)) \o above
             ELSE SubSeq(ties, 1, m) \o above

\* errors the database may return to a statement of an append
Faults == {"none", "insert", "count", "trim"}

\* a test that sees only the first row above the limit
OverCapByOne(count) == count = maxMessages + 1

\* if count > maxMessages
OverCap(count) == count > maxMessages

\* saveMessage / saveCall on one table: INSERT, LastInsertId, SELECT COUNT(*),
\* and the DELETE when count > maxMessages. Any of the three statements may
\* return an error, which ends the function. The set of possible outcomes.
Save(rows, seq, fields, schema, ts, fault) ==
    LET columns == buildInsertParams(fields)
        id == seq + 1
        inserted == Insert(rows, [id |-> id, ts |-> ts])
        count == Len(inserted)
    IN  IF fault = "insert" \/ ~InsertAccepted(columns, schema)
        THEN {[rows |-> rows, seq |-> seq, id |-> 0, err |-> "insert",
               trimmed |-> FALSE]}
        ELSE IF fault = "count"
        THEN {[rows |-> inserted, seq |-> id, id |-> id, err |-> "count",
               trimmed |-> FALSE]}
        ELSE IF OverCap(count)
        THEN IF fault = "trim"
             THEN {[rows |-> inserted, seq |-> id, id |-> id, err |-> "trim",
                    trimmed |-> FALSE]}
             ELSE {[rows |-> Trim(inserted, trimToCount, tie), seq |-> id,
                    id |-> id, err |-> "nil", trimmed |-> TRUE] : tie \in Ties}
        ELSE {[rows |-> inserted, seq |-> id, id |-> id, err |-> "nil",
               trimmed |-> FALSE]}

saveMessage(ts, fault) ==
    Save(messages, msgSeq, MessageFields, MessagesSchema, ts, fault)

saveCall(ts, fault) ==
    Save(calls, callSeq, CallFields, CallsSchema, ts, fault)

\* ---------------------------------------------------------- initial tables
\* messages.db outlives the process: a table starts with the rows earlier
\* runs left. Ids were assigned 1..n; timestamps are origin-side times and
\* need not follow the ids.
Shapes == {"asc", "desc", "flat"}
InitRows(n, shape) ==
    [p \in 1..n |->
        CASE shape = "asc" -> [id |-> p, ts |-> p]
          [] shape = "desc" -> [id |-> n + 1 - p, ts |-> p]
          [] OTHER -> [id |-> p, ts |-> maxMessages \div 2]]

\* timestamps of new events: older than, among, and newer than the rows
Timestamps == {0, maxMessages \div 2, 2 * maxMessages}

NoRet == [table |-> "none", err |-> "nil", id |-> 0, trimmed |-> FALSE,
          ts |-> 0, before |-> 0]

NoEvent == [kind |-> "none"]

ConnInit ==
    /\ socketConns = {}
    /\ connPc = [c \in Conns |-> "new"]
    /\ peer = [c \in Conns |-> "open"]
    /\ out = [c \in Conns |-> <<>>]
    /\ regAt = [c \in Conns |-> 0]

NoLine == [conn |-> 0, line |-> [kind |-> "none"]]

\* main waits on sigChan: the listener accepts and the client is connected
CtlInit ==
    /\ mainPc = "waiting"
    /\ paired = TRUE
    /\ sent = 0
    /\ nLines = 0
    /\ lastLine = NoLine

WorkerInit ==
    /\ pc = "idle"
    /\ inbox = NoEvent
    /\ data = <<>>
    /\ visited = {}
    /\ nPub = 0
    /\ nEvents = 0
    /\ verdict = "none"
    /\ exited = "no"

\* ------------------------------------------------- the store specification
StoreInit ==
    /\ config = [IncludeStatusMessages |-> FALSE, IncludeMutedMessages |-> FALSE]
    /\ store = [ID |-> MyJID, LID |-> MyLID]
    /\ \E n \in {0, maxMessages} :
        /\ messages = InitRows(n, "asc")
        /\ msgSeq = n
    /\ \E n \in {maxMessages - 1, maxMessages}, shape \in Shapes :
        /\ calls = InitRows(n, shape)
        /\ callSeq = n
    /\ ret = NoRet
    /\ nAppends = 0
    /\ ConnInit
    /\ WorkerInit
    /\ CtlInit

\* ret: the table appended to, the error returned, the id given to the
\* record, whether the DELETE ran, the timestamp appended and the row count
\* before the append
Returned(table, r, ts, before) ==
    [table |-> table, err |-> r.err, id |-> r.id, trimmed |-> r.trimmed,
     ts |-> ts, before |-> before]

AppendMessage(ts, fault) ==
    /\ nAppends < MaxAppends
    /\ \E r \in saveMessage(ts, fault) :
        /\ messages' = r.rows
        /\ msgSeq' = r.seq
        /\ ret' = Returned("messages", r, ts, Len(messages))
    /\ nAppends' = nAppends + 1
    /\ UNCHANGED <<config, store, ctlVars, calls, callSeq, connVars, workerVars>>

AppendCall(ts, fault) ==
    /\ nAppends < MaxAppends
    /\ \E r \in saveCall(ts, fault) :
        /\ calls' = r.rows
        /\ callSeq' = r.seq
        /\ ret' = Returned("calls", r, ts, Len(calls))
    /\ nAppends' = nAppends + 1
    /\ UNCHANGED <<config, store, ctlVars, messages, msgSeq, connVars, workerVars>>

StoreNext ==
    \/ \E ts \in Timestamps, fault \in Faults : AppendMessage(ts, fault)
    \/ \E ts \in Timestamps, fault \in Faults : AppendCall(ts, fault)

StoreSpec == StoreInit /\ [][StoreNext]_vars

\* -------------------------------------------------------------- classifier
\* A text is the sequence of its pieces: "" is <<>>, a + b is a \o b.
NoCtx == [present |-> FALSE, mentions |-> <<>>, participant |-> <<>>]

\* waE2E.Message: whether the pointer is nil, the conversation text, the
\* parts that are set ("other": a part the code does not look at), and for
\* each part its text (the text of an extended text message, a caption, a
\* file name, a display name) and its context info; ptt is the audio's flag
CtxParts == {"ext", "image", "video", "document", "audio", "sticker"}
PartKinds == CtxParts \cup {"contact", "location"}

getContextInfo(msg) ==
    IF msg.nil THEN NoCtx
    ELSE IF "ext" \in msg.parts THEN msg.ctx["ext"]
    ELSE IF "image" \in msg.parts THEN msg.ctx["image"]
    ELSE IF "video" \in msg.parts THEN msg.ctx["video"]
    ELSE IF "document" \in msg.parts THEN msg.ctx["document"]
    ELSE IF "audio" \in msg.parts THEN msg.ctx["audio"]
    ELSE IF "sticker" \in msg.parts THEN msg.ctx["sticker"]
    ELSE NoCtx

\* what extractText returns from the branch of one part
PartText(msg, p) ==
    CASE p = "ext" -> msg.body[p]
      [] p = "image" ->
            IF msg.body[p] # <<>> THEN <<"[Image] ">> \o msg.body[p] ELSE <<"[Image]">>
      [] p = "video" ->
            IF msg.body[p] # <<>> THEN <<"[Video] ">> \o msg.body[p] ELSE <<"[Video]">>
      [] p = "document" -> <<"[Document] ">> \o msg.body[p]
      [] p = "audio" -> IF msg.ptt THEN <<"[Voice Message]">> ELSE <<"[Audio]">>
      [] p = "sticker" -> <<"[Sticker]">>
      [] p = "contact" -> <<"[Contact] ">> \o msg.body[p]
      [] OTHER -> <<"[Location]">>

\* an extractText that looks for a video before an image
extractTextVideoFirst(msg) ==
    IF msg.nil THEN <<>>
    ELSE IF msg.conversation # <<>> THEN msg.conversation
    ELSE IF "ext" \in msg.parts THEN PartText(msg, "ext")
    ELSE IF "video" \in msg.parts THEN PartText(msg, "video")
    ELSE IF "image" \in msg.parts THEN PartText(msg, "image")
    ELSE IF "document" \in msg.parts THEN PartText(msg, "document")
    ELSE IF "audio" \in msg.parts THEN PartText(msg, "audio")
    ELSE IF "sticker" \in msg.parts THEN PartText(msg, "sticker")
    ELSE IF "contact" \in msg.parts THEN PartText(msg, "contact")
    ELSE IF "location" \in msg.parts THEN PartText(msg, "location")
    ELSE <<>>

extractText(msg) ==
    IF msg.nil THEN <<>>
    ELSE IF msg.conversation # <<>> THEN msg.conversation
    ELSE IF "ext" \in msg.parts THEN PartText(msg, "ext")
    ELSE IF "image" \in msg.parts THEN PartText(msg, "image")
    ELSE IF "video" \in msg.parts THEN PartText(msg, "video")
    ELSE IF "document" \in msg.parts THEN PartText(msg, "document")
    ELSE IF "audio" \in msg.parts THEN PartText(msg, "audio")
    ELSE IF "sticker" \in msg.parts THEN PartText(msg, "sticker")
    ELSE IF "contact" \in msg.parts THEN PartText(msg, "contact")
    ELSE IF "location" \in msg.parts THEN PartText(msg, "location")
    ELSE <<>>

\* GetChatSettings: "error", "notfound", or the MutedUntil of the settings
\* found ("forever", a time in the "future", a time in the "past")
isMuted(mute) == mute = "forever" \/ mute = "future"

NilJID == [user |-> "", device |-> 0, server |-> "nil"]

\* a comparison with the primary identity only
MatchesMeNoLID(jid) ==
    \/ jid = String(ToNonAD(store.ID))
    \/ jid = String(store.ID)

MatchesMe(jid) ==
    \/ jid = String(ToNonAD(store.ID))
    \/ jid = String(store.ID)
    \/ ~IsEmpty(store.LID) /\ jid = String(ToNonAD(store.LID))

isMentioned(msg) ==
    LET ctx == getContextInfo(msg)
    IN  /\ store.ID # NilJID
        /\ ctx.present
        /\ \E i \in DOMAIN ctx.mentions : MatchesMe(ctx.mentions[i])

isReplyToMe(msg) ==
    LET ctx == getContextInfo(msg)
    IN  /\ store.ID # NilJID
        /\ ctx.present
        /\ ctx.participant # <<>>
        /\ MatchesMe(ctx.participant)

\* handleMessage's three early returns (each preceded by the variant a slip
\* in it would give: own posts to the status channel let through, the
\* status flag ignored, the reply bypass left out)
DropSelfNotStatus(e) == e.isFromMe /\ e.server # "broadcast"

DropSelf(e) == e.isFromMe

DropStatusAlways(e) == e.server = "broadcast"

DropStatus(e) == e.server = "broadcast" /\ ~config.IncludeStatusMessages

DropMutedNoReplyBypass(e) ==
    /\ isMuted(e.mute)
    /\ ~isMentioned(e.content)
    /\ ~config.IncludeMutedMessages

DropMuted(e) ==
    /\ isMuted(e.mute)
    /\ ~isMentioned(e.content)
    /\ ~isReplyToMe(e.content)
    /\ ~config.IncludeMutedMessages

Dropped(e) == DropSelf(e) \/ DropStatus(e) \/ DropMuted(e)

\* a Message built without the substitution of "[Media/Other]" for ""
BuildMessageNoPlaceholder(e) ==
    [Type |-> "message",
     ID |-> 0,
     Timestamp |-> e.ts,
     ChatJID |-> e.server,
     IsMuted |-> isMuted(e.mute),
     IsReplyToMe |-> isReplyToMe(e.content),
     Text |-> extractText(e.content)]

\* the Message built from a kept event (chat, sender and their names pass
\* through from the event and the contact store)
BuildMessage(e) ==
    [Type |-> "message",
     ID |-> 0,
     Timestamp |-> e.ts,
     ChatJID |-> e.server,
     IsMuted |-> isMuted(e.mute),
     IsReplyToMe |-> isReplyToMe(e.content),
     Text |-> IF extractText(e.content) = <<>> THEN <<"[Media/Other]">>
              ELSE extractText(e.content)]

\* the Call built from a call offer or a call-offer notice
BuildCall(e) == [ID |-> 0, Timestamp |-> e.ts, CallID |-> e.callID]

\* json.Marshal(SocketEvent{Type, Data}) followed by '\n'
MarshalMessage(msg) == [type |-> "message", data |-> msg]
MarshalCall(call) == [type |-> "call", data |-> call]

\* ------------------------------------------------------------------ events
Text(s) == <<s>>
\* a message of the given parts
Content(isNil, conversation, parts, body, ptt, ctx) ==
    [nil |-> isNil, conversation |-> conversation, parts |-> parts,
     body |-> body, ptt |-> ptt, ctx |-> ctx]
\* a message of one part
OnePart(p, text, ptt, ctx) ==
    Content(FALSE, <<>>, {p}, [q \in {p} |-> text], ptt, [q \in {p} |-> ctx])
PlainContent == Content(FALSE, Text("hi"), {}, <<>>, FALSE, <<>>)
ExtContent(ctx) == OnePart("ext", Text("re"), FALSE, ctx)
CtxInfos ==
    [present : {TRUE},
     mentions : {<<>>, <<String(OtherJID), String(ToNonAD(MyJID))>>},
     participant : {<<>>, String(ToNonAD(MyLID)), String(OtherJID)}]
Contents == {PlainContent} \cup {ExtContent(c) : c \in CtxInfos}

MessageEvents ==
    [kind : {"Message"}, isFromMe : BOOLEAN,
     server : {"s.whatsapp.net", "broadcast"},
     mute : {"notfound", "forever", "past"},
     content : Contents, ts : {maxMessages \div 2}]
CallKinds == {"CallOffer", "CallOfferNotice"}
CallEvents ==
    [kind : CallKinds, callID : {"c1"}, ts : {0, 2 * maxMessages}]

\* every kind of content extractText distinguishes: a conversation text, each
\* part with and without its caption / file name / display name, a part of
\* no known kind ("other"), no part at all, and a nil message
TextContents ==
    {PlainContent,
     Content(TRUE, <<>>, {}, <<>>, FALSE, <<>>),
     Content(FALSE, <<>>, {}, <<>>, FALSE, <<>>)}
    \cup {OnePart(p, text, ptt, NoCtx) :
            p \in PartKinds \cup {"other"}, text \in {<<>>, Text("cap")},
            ptt \in BOOLEAN}

\* messages with two parts set, or a conversation text beside a part; the
\* text of each part is the name of its kind
SeveralParts ==
    {ps \in SUBSET PartKinds : Cardinality(ps) = 2}
    \cup {{"ext", "image", "video"}}
MixedContents ==
    {Content(FALSE, <<>>, ps, [q \in ps |-> Text(q)], FALSE, [q \in ps |-> NoCtx]) :
        ps \in SeveralParts}
    \cup {Content(FALSE, Text("hi"), {p}, [q \in {p} |-> Text(q)], FALSE,
                  [q \in {p} |-> NoCtx]) : p \in PartKinds}

\* the forms in which a mention or a reply target names an account: the
\* user@server of another account, of the own account under its primary and
\* its linked-device identity, and the own primary identity with its device
Refs == {String(OtherJID), String(ToNonAD(MyJID)), String(MyJID),
         String(ToNonAD(MyLID))}
MentionLists ==
    {<<>>} \cup {<<r>> : r \in Refs} \cup {<<String(OtherJID), r>> : r \in Refs}
IdentityCtxInfos ==
    [present : {TRUE}, mentions : MentionLists, participant : {<<>>} \cup Refs]
IdentityContents ==
    {OnePart(p, Text("re"), FALSE, c) :
        p \in {"ext", "image", "contact"}, c \in IdentityCtxInfos}

ContentEvents ==
    [kind : {"Message"}, isFromMe : {FALSE}, server : {"s.whatsapp.net"},
     mute : {"notfound", "forever"},
     content : TextContents \cup MixedContents \cup IdentityContents,
     ts : {maxMessages \div 2}]

\* the events of the pipeline specification: a plain message and a call
\* (the classifier specification delivers every kind of event)
FeedEvents ==
    { [kind |-> "Message", isFromMe |-> FALSE, server |-> "s.whatsapp.net",
       mute |-> "notfound", content |-> PlainContent, ts |-> maxMessages \div 2],
      [kind |-> "CallOffer", callID |-> "c1", ts |-> 2 * maxMessages] }

\* ---------------------------------------------------------------- registry
\* connMu is read-locked from broadcastMessage's RLock to its return
RLocked == pc = "write" \/ pc = "attention"

\* a Lock that does not wait for the readers
CanLockAnytime == TRUE

\* connMu.Lock() returns only while no reader holds the lock
CanLock == ~RLocked

Running == exited = "no"

\* ----------------------------------------------------------------- session
\* main's positions: "start" (App built), "listening" (handler added, socket
\* server started), "authenticating" (in loginWithQR), "waiting" (connected,
\* on sigChan), "signalled", "disconnected", "removed", "listenerClosed", "done"
HandlerAdded == mainPc # "start"
ListenerOpen ==
    mainPc \in {"listening", "authenticating", "waiting", "signalled",
                "disconnected", "removed"}
SocketFile ==
    mainPc \in {"listening", "authenticating", "waiting", "signalled",
                "disconnected"}
ClientConnected == mainPc \in {"authenticating", "waiting", "signalled"}
\* the client is logged in: the server sends it protocol events
LoggedIn == mainPc \in {"waiting", "signalled"}

\* client.AddEventHandler; startSocketServer, on whose error os.Exit(1)
StartSocketServer(ok) ==
    /\ Running
    /\ mainPc = "start"
    /\ IF ok THEN mainPc' = "listening" /\ exited' = "no"
       ELSE mainPc' = mainPc /\ exited' = "1"
    /\ UNCHANGED <<config, store, paired, sent, nLines, lastLine, storeVars,
                   nAppends, connVars, pc, inbox, data, visited, nPub, nEvents,
                   verdict>>

\* Store.ID == nil: loginWithQR, which connects and reads qrChan; else
\* client.Connect. An error of Connect: os.Exit(1)
Connect(ok) ==
    /\ Running
    /\ mainPc = "listening"
    /\ IF ok
       THEN /\ mainPc' = IF paired THEN "waiting" ELSE "authenticating"
            /\ exited' = "no"
       ELSE mainPc' = mainPc /\ exited' = "1"
    /\ UNCHANGED <<config, store, paired, sent, nLines, lastLine, storeVars,
                   nAppends, connVars, pc, inbox, data, visited, nPub, nEvents,
                   verdict>>

\* qrChan is closed, after the pairing succeeded or timed out: loginWithQR
\* returns nil either way
QRDone(success) ==
    /\ Running
    /\ mainPc = "authenticating"
    /\ mainPc' = "waiting"
    /\ paired' = success
    /\ UNCHANGED <<config, store, sent, nLines, lastLine, storeVars, nAppends,
                   connVars, workerVars>>

\* SIGINT / SIGTERM: received on sigChan once signal.Notify has run, and
\* ending the process at once before that
Signal ==
    /\ Running
    /\ mainPc \in {"start", "listening", "authenticating", "waiting"}
    /\ IF mainPc = "waiting"
       THEN mainPc' = "signalled" /\ exited' = "no"
       ELSE mainPc' = mainPc /\ exited' = "signal"
    /\ UNCHANGED <<config, store, paired, sent, nLines, lastLine, storeVars,
                   nAppends, connVars, pc, inbox, data, visited, nPub, nEvents,
                   verdict>>

\* client.Disconnect(), then the deferred calls in reverse order:
\* os.Remove(socketPath), listener.Close(), msgDB.Close() and the return
MainStep ==
    /\ Running
    /\ mainPc \in {"signalled", "disconnected", "removed", "listenerClosed"}
    /\ mainPc' = CASE mainPc = "signalled" -> "disconnected"
                    [] mainPc = "disconnected" -> "removed"
                    [] mainPc = "removed" -> "listenerClosed"
                    [] OTHER -> "done"
    /\ exited' = IF mainPc = "listenerClosed" THEN "0" ELSE "no"
    /\ UNCHANGED <<config, store, paired, sent, nLines, lastLine, storeVars,
                   nAppends, connVars, pc, inbox, data, visited, nPub, nEvents,
                   verdict>>

\* the remote end connects and the accept loop starts its handler goroutine
Accept(c) ==
    /\ Running
    /\ ListenerOpen
    /\ connPc[c] = "new"
    /\ \A b \in Conns : b < c => connPc[b] # "new"
    /\ connPc' = [connPc EXCEPT ![c] = "accepted"]
    /\ UNCHANGED <<config, store, ctlVars, storeVars, nAppends, socketConns, peer, out,
                   regAt, workerVars>>

\* handleSocketConn: Lock; socketConns[conn] = struct{}{}; Unlock
Register(c) ==
    /\ Running
    /\ connPc[c] = "accepted"
    /\ CanLock
    /\ socketConns' = socketConns \cup {c}
    /\ regAt' = [regAt EXCEPT ![c] = nPub]
    /\ connPc' = [connPc EXCEPT ![c] = "reading"]
    /\ UNCHANGED <<config, store, ctlVars, storeVars, nAppends, peer, out, workerVars>>

\* the remote end closes the connection, or only its reading side
PeerClose(c) ==
    /\ Running
    /\ connPc[c] = "reading"
    /\ peer[c] # "closed"
    /\ peer' = [peer EXCEPT ![c] = "closed"]
    /\ UNCHANGED <<config, store, ctlVars, storeVars, nAppends, socketConns, connPc, out,
                   regAt, workerVars>>

PeerShutdownRead(c) ==
    /\ Running
    /\ connPc[c] = "reading"
    /\ peer[c] = "open"
    /\ peer' = [peer EXCEPT ![c] = "shutrd"]
    /\ UNCHANGED <<config, store, ctlVars, storeVars, nAppends, socketConns, connPc, out,
                   regAt, workerVars>>

\* the remote end stops reading and the socket's buffer is full: a Write to
\* the connection does not return until it reads again or closes
PeerStall(c) ==
    /\ Running
    /\ connPc[c] = "reading"
    /\ peer[c] = "open"
    /\ peer' = [peer EXCEPT ![c] = "stalled"]
    /\ UNCHANGED <<config, store, ctlVars, storeVars, nAppends, socketConns, connPc, out,
                   regAt, workerVars>>

PeerResume(c) ==
    /\ Running
    /\ connPc[c] = "reading"
    /\ peer[c] = "stalled"
    /\ peer' = [peer EXCEPT ![c] = "open"]
    /\ UNCHANGED <<config, store, ctlVars, storeVars, nAppends, socketConns, connPc, out,
                   regAt, workerVars>>

\* scanner.Scan() returns false: the remote end has closed
ScanEnd(c) ==
    /\ Running
    /\ connPc[c] = "reading"
    /\ peer[c] = "closed"
    /\ connPc' = [connPc EXCEPT ![c] = "deferred"]
    /\ UNCHANGED <<config, store, ctlVars, storeVars, nAppends, socketConns, peer, out,
                   regAt, workerVars>>

\* the deferred function: Lock; delete(socketConns, conn); Unlock
Unregister(c) ==
    /\ Running
    /\ connPc[c] = "deferred"
    /\ CanLock
    /\ socketConns' = socketConns \ {c}
    /\ connPc' = [connPc EXCEPT ![c] = "unregistered"]
    /\ UNCHANGED <<config, store, ctlVars, storeVars, nAppends, peer, out, regAt,
                   workerVars>>

\* a deferred function that closes the connection before it takes the lock
CloseBeforeUnregister(c) ==
    /\ Running
    /\ connPc[c] \in {"deferred", "unregistered"}
    /\ connPc' = [connPc EXCEPT ![c] = "closed"]
    /\ UNCHANGED <<config, store, ctlVars, storeVars, nAppends, socketConns, peer, out,
                   regAt, workerVars>>

\* the deferred function: conn.Close()
Close(c) ==
    /\ Running
    /\ connPc[c] = "unregistered"
    /\ connPc' = [connPc EXCEPT ![c] = "closed"]
    /\ UNCHANGED <<config, store, ctlVars, storeVars, nAppends, socketConns, peer, out,
                   regAt, workerVars>>

\* ----------------------------------------------------------- command loop
\* bufio.Scanner: a line longer than this makes Scan return false
MaxScanTokenSize == 65536

\* a line a peer sends: its length, whether it unmarshals into SocketCommand,
\* its action, whether types.ParseJID accepts its chat_jid, and whether
\* client.SendMessage then succeeds
LineLengths == {2, MaxScanTokenSize + 1}
CommandLines ==
    [len : LineLengths, json : {"ok", "malformed"},
     action : {"send", "reply", "other"}, jid : {"valid", "invalid"},
     sendOK : BOOLEAN]

\* scanner.Scan() returns true for the line
Scanned(line) == line.len <= MaxScanTokenSize

\* sendMessage / replyToMessage: client.SendMessage is called once when
\* ParseJID accepts chat_jid, and not at all otherwise
Attempts(line) ==
    IF line.json = "ok" /\ line.action \in {"send", "reply"} /\ line.jid = "valid"
    THEN 1 ELSE 0

\* one turn of handleSocketConn's loop: Scan, Unmarshal, the switch on Action.
\* Every error is only printed. When Scan returns false the loop ends.
ReadLine(c, line) ==
    /\ Running
    /\ connPc[c] = "reading"
    /\ peer[c] # "closed"
    /\ nLines < MaxLines
    /\ nLines' = nLines + 1
    /\ lastLine' = [conn |-> c, line |-> line]
    /\ IF Scanned(line)
       THEN /\ sent' = sent + Attempts(line)
            /\ connPc' = connPc
       ELSE /\ sent' = sent
            /\ connPc' = [connPc EXCEPT ![c] = "deferred"]
    /\ UNCHANGED <<config, store, mainPc, paired, storeVars, nAppends,
                   socketConns, peer, out, regAt, workerVars>>

\* ------------------------------------------------------------------ worker
\* the client passes the next protocol event to handleEvent
Deliver(e, max) ==
    /\ Running
    /\ HandlerAdded /\ LoggedIn
    /\ pc = "idle"
    /\ nEvents < max
    /\ inbox' = e
    /\ pc' = "handling"
    /\ nEvents' = nEvents + 1
    /\ UNCHANGED <<config, store, ctlVars, storeVars, nAppends, connVars, data, visited,
                   nPub, verdict, exited>>

\* broadcastMessage up to its RLock: marshal, then take the read lock
BeginBroadcast(bytes) ==
    /\ data' = bytes
    /\ visited' = {}
    /\ nPub' = nPub + 1
    /\ pc' = "write"

\* handleMessage: the early returns; else build, saveMessage (an error is
\* only printed), broadcastMessage
handleMessage(fault) ==
    /\ Running
    /\ pc = "handling"
    /\ inbox.kind = "Message"
    /\ IF Dropped(inbox)
       THEN /\ pc' = "idle"
            /\ verdict' = CASE DropSelf(inbox) -> "self"
                            [] DropStatus(inbox) -> "status"
                            [] OTHER -> "muted"
            /\ UNCHANGED <<storeVars, data, visited, nPub>>
       ELSE \E r \in saveMessage(inbox.ts, fault) :
            /\ messages' = r.rows
            /\ msgSeq' = r.seq
            /\ ret' = Returned("messages", r, inbox.ts, Len(messages))
            /\ BeginBroadcast(MarshalMessage([BuildMessage(inbox) EXCEPT !.ID = r.id]))
            /\ verdict' = "kept"
            /\ UNCHANGED <<calls, callSeq>>
    /\ inbox' = NoEvent
    /\ UNCHANGED <<config, store, ctlVars, nAppends, connVars, nEvents, exited>>

\* handleCallOffer and handleCallOfferNotice, which differ in the type of the
\* event only: build the Call, saveCall (an error is only printed), return
handleCall ==
    /\ Running
    /\ pc = "handling"
    /\ inbox.kind \in CallKinds
    /\ \E fault \in Faults : \E r \in saveCall(inbox.ts, fault) :
        /\ calls' = r.rows
        /\ callSeq' = r.seq
        /\ ret' = Returned("calls", r, inbox.ts, Len(calls))
    /\ pc' = "idle"
    /\ verdict' = "call"
    /\ inbox' = NoEvent
    /\ UNCHANGED <<config, store, ctlVars, messages, msgSeq, nAppends, connVars,
                   data, visited, nPub, nEvents, exited>>

\* conn.Write(data): an entry records the call and whether the bytes went out
WriteResult(c) == [n |-> nPub, bytes |-> data, ok |-> peer[c] = "open"]

\* handleEvent, case *events.LoggedOut: os.Exit(0)
handleLoggedOut ==
    /\ Running
    /\ pc = "handling"
    /\ inbox.kind = "LoggedOut"
    /\ pc' = "exited"
    /\ exited' = "0"
    /\ verdict' = "loggedout"
    /\ inbox' = NoEvent
    /\ UNCHANGED <<config, store, ctlVars, storeVars, nAppends, connVars, data,
                   visited, nPub, nEvents>>

\* handleEvent, cases *events.Connected and *events.Disconnected: a Println
handleNotice ==
    /\ Running
    /\ pc = "handling"
    /\ inbox.kind \in {"Connected", "Disconnected"}
    /\ pc' = "idle"
    /\ verdict' = "notice"
    /\ inbox' = NoEvent
    /\ UNCHANGED <<config, store, ctlVars, storeVars, nAppends, connVars, data,
                   visited, nPub, nEvents, exited>>

\* conn.Write has no deadline: it returns once the bytes are in the socket's
\* buffer or the connection has failed, and blocks while the buffer is full
WriteReturns(c) == peer[c] # "stalled"

\* a Write whose bytes overtake those of the Write before it
WriteOvertaking(c) ==
    /\ Running
    /\ pc = "write"
    /\ c \in socketConns \ visited
    /\ WriteReturns(c)
    /\ out' = [out EXCEPT ![c] =
                    IF @ = <<>> THEN <<WriteResult(c)>>
                    ELSE SubSeq(@, 1, Len(@) - 1) \o <<WriteResult(c), @[Len(@)]>>]
    /\ visited' = visited \cup {c}
    /\ UNCHANGED <<config, store, ctlVars, storeVars, nAppends, socketConns, connPc, peer,
                   regAt, pc, inbox, data, nPub, nEvents, verdict, exited>>

\* one iteration of: for conn := range a.socketConns { conn.Write(data) }
Write(c) ==
    /\ Running
    /\ pc = "write"
    /\ c \in socketConns \ visited
    /\ WriteReturns(c)
    /\ out' = [out EXCEPT ![c] = Append(@, WriteResult(c))]
    /\ visited' = visited \cup {c}
    /\ UNCHANGED <<config, store, ctlVars, storeVars, nAppends, socketConns, connPc, peer,
                   regAt, pc, inbox, data, nPub, nEvents, verdict, exited>>

\* a loop that is left after its first iteration at the latest
LoopEndAfterFirst ==
    /\ Running
    /\ pc = "write"
    /\ visited # {} \/ socketConns = {}
    /\ pc' = "attention"
    /\ UNCHANGED <<config, store, ctlVars, storeVars, nAppends, connVars, inbox, data,
                   visited, nPub, nEvents, verdict, exited>>

\* the range loop ends once every connection of the map has been visited
LoopEnd ==
    /\ Running
    /\ pc = "write"
    /\ socketConns \subseteq visited
    /\ pc' = "attention"
    /\ UNCHANGED <<config, store, ctlVars, storeVars, nAppends, connVars, inbox, data,
                   visited, nPub, nEvents, verdict, exited>>

\* sendAttentionWindow: on an error os.Exit(1); else RUnlock and return
Attention(ok) ==
    /\ Running
    /\ pc = "attention"
    /\ IF ok
       THEN pc' = "idle" /\ exited' = "no"
       ELSE pc' = "exited" /\ exited' = "1"
    /\ UNCHANGED <<config, store, ctlVars, storeVars, nAppends, connVars, inbox, data,
                   visited, nPub, nEvents, verdict>>

\* ------------------------------------------------ the pipeline specification
\* the process is connected, both tables empty, no connection accepted yet
Init ==
    /\ config = [IncludeStatusMessages |-> FALSE, IncludeMutedMessages |-> FALSE]
    /\ store = [ID |-> MyJID, LID |-> MyLID]
    /\ messages = InitRows(0, "asc")
    /\ msgSeq = 0
    /\ calls = InitRows(0, "asc")
    /\ callSeq = 0
    /\ ret = NoRet
    /\ nAppends = 0
    /\ ConnInit
    /\ WorkerInit
    /\ CtlInit

ConnNext(c) ==
    \/ Accept(c)
    \/ Register(c)
    \/ ScanEnd(c)
    \/ Unregister(c)
    \/ Close(c)

PeerNext(c) ==
    \/ PeerClose(c)
    \/ PeerShutdownRead(c)

WorkerNext ==
    \/ \E fault \in Faults : handleMessage(fault)
    \/ handleCall
    \/ \E c \in Conns : Write(c)
    \/ LoopEnd
    \/ \E ok \in BOOLEAN : Attention(ok)

Next ==
    \/ \E e \in FeedEvents : Deliver(e, MaxEvents)
    \/ WorkerNext
    \/ \E c \in Conns : ConnNext(c)
    \/ \E c \in Conns : PeerNext(c)

Spec == Init /\ [][Next]_vars

\* the goroutines of the process are scheduled: the worker and every
\* connection handler take their next step when one is enabled. Nothing
\* obliges the remote ends or the event source to act.
FairSpec ==
    /\ Spec
    /\ WF_vars(WorkerNext)
    /\ \A c \in Conns : WF_vars(ConnNext(c))

\* ------------------------------------------------- the stall specification
\* the pipeline with remote ends that may stop reading
StallNext ==
    \/ Next
    \/ \E c \in Conns : PeerStall(c)
    \/ \E c \in Conns : PeerResume(c)

StallSpec ==
    /\ Init /\ [][StallNext]_vars
    /\ WF_vars(WorkerNext)
    /\ \A c \in Conns : WF_vars(ConnNext(c))

\* ----------------------------------------------- the session specification
\* the process from the start of main: with or without a prior session
SessionInit ==
    /\ config = [IncludeStatusMessages |-> FALSE, IncludeMutedMessages |-> FALSE]
    /\ store = [ID |-> MyJID, LID |-> MyLID]
    /\ messages = InitRows(0, "asc")
    /\ msgSeq = 0
    /\ calls = InitRows(0, "asc")
    /\ callSeq = 0
    /\ ret = NoRet
    /\ nAppends = 0
    /\ ConnInit
    /\ WorkerInit
    /\ mainPc = "start"
    /\ paired \in BOOLEAN
    /\ sent = 0
    /\ nLines = 0
    /\ lastLine = NoLine

SessionEvents == {[kind |-> "LoggedOut"], [kind |-> "Connected"],
                  [kind |-> "Disconnected"]}

MainNext ==
    \/ \E ok \in BOOLEAN : StartSocketServer(ok)
    \/ \E ok \in BOOLEAN : Connect(ok)
    \/ \E success \in BOOLEAN : QRDone(success)
    \/ MainStep

SessionNext ==
    \/ MainNext
    \/ Signal
    \/ \E e \in SessionEvents \cup FeedEvents : Deliver(e, MaxEvents)
    \/ handleLoggedOut
    \/ handleNotice
    \/ WorkerNext
    \/ \E c \in Conns : ConnNext(c)
    \/ \E c \in Conns : PeerNext(c)

SessionSpec == SessionInit /\ [][SessionNext]_vars

\* ----------------------------------------------- the command specification
\* the connections and the lines their remote ends send; no protocol event
CommandNext ==
    \/ \E c \in Conns, line \in CommandLines : ReadLine(c, line)
    \/ \E c \in Conns : ConnNext(c)
    \/ \E c \in Conns : PeerNext(c)

CommandSpec == Init /\ [][CommandNext]_vars

\* ---------------------------------------------- the classifier specification
\* every kind of event, under every configuration, with one connection
\* registered and the calls table empty or full
ClassifyInit ==
    /\ config \in [IncludeStatusMessages : BOOLEAN, IncludeMutedMessages : BOOLEAN]
    /\ store \in [ID : {MyJID}, LID : {MyLID, EmptyJID}]
    /\ messages = InitRows(0, "asc")
    /\ msgSeq = 0
    /\ \E n \in {0, maxMessages} :
        /\ calls = InitRows(n, "desc")
        /\ callSeq = n
    /\ ret = NoRet
    /\ nAppends = 0
    /\ socketConns = {1}
    /\ connPc = [c \in Conns |-> IF c = 1 THEN "reading" ELSE "new"]
    /\ peer = [c \in Conns |-> "open"]
    /\ out = [c \in Conns |-> <<>>]
    /\ regAt = [c \in Conns |-> 0]
    /\ WorkerInit
    /\ CtlInit

ClassifyNext ==
    \/ \E e \in MessageEvents \cup CallEvents : Deliver(e, MaxClassified)
    \/ WorkerNext

ClassifySpec == ClassifyInit /\ [][ClassifyNext]_vars

\* ------------------------------------------------ the content specification
\* messages of every content and every form of reference to an account, with
\* and without a linked-device identity in the store, one connection registered
ContentInit ==
    /\ config = [IncludeStatusMessages |-> FALSE, IncludeMutedMessages |-> FALSE]
    /\ store \in [ID : {MyJID}, LID : {MyLID, EmptyJID}]
    /\ messages = InitRows(0, "asc")
    /\ msgSeq = 0
    /\ calls = InitRows(0, "asc")
    /\ callSeq = 0
    /\ ret = NoRet
    /\ nAppends = 0
    /\ socketConns = {1}
    /\ connPc = [c \in Conns |-> IF c = 1 THEN "reading" ELSE "new"]
    /\ peer = [c \in Conns |-> "open"]
    /\ out = [c \in Conns |-> <<>>]
    /\ regAt = [c \in Conns |-> 0]
    /\ WorkerInit
    /\ CtlInit

ContentNext ==
    \/ \E e \in ContentEvents \cup CallEvents : Deliver(e, MaxContent)
    \/ WorkerNext

ContentSpec == ContentInit /\ [][ContentNext]_vars

\* =================================================================== claims
HandlerStep == pc = "handling" /\ pc' # "handling"
NothingDone ==
    /\ pc' = "idle"
    /\ UNCHANGED <<messages, calls, msgSeq, callSeq, out, nPub, data>>
Copies(c, n) == Cardinality({i \in DOMAIN out[c] : out[c][i].n = n})
WriteFailed(c) == \E i \in DOMAIN out[c] : ~out[c][i].ok

\* ---- C1 (StoreSpec)
\* C1, as claimed: whatever the appends and their timestamps, a table holds
\* at most maxMessages rows after each append has returned.
C1_RowCountAtMostMax ==
    Len(messages) <= maxMessages /\ Len(calls) <= maxMessages

\* C1, amended: a table holds at most maxMessages rows after each append to it
\* that returned without error.
C1_RowCountAtMostMaxAfterSuccess ==
    /\ (ret.table = "messages" /\ ret.err = "nil") => Len(messages) <= maxMessages
    /\ (ret.table = "calls" /\ ret.err = "nil") => Len(calls) <= maxMessages

\* an append to a full table has returned without error
C1_Witness ==
    ret.table = "calls" /\ ret.err = "nil" /\ ret.before = maxMessages

\* ---- C2 (StoreSpec)
\* the rows kept are trimToCount of the rows present after the insert, none of
\* them older than a row deleted
NewestKept(before, after, r) ==
    LET all == Range(before) \cup {[id |-> r.id, ts |-> r.ts]}
        kept == Range(after)
    IN  /\ r.trimmed
        /\ kept \subseteq all
        /\ Cardinality(kept) = trimToCount
        /\ \A k \in kept : \A d \in all \ kept : k.ts >= d.ts

NothingDeleted(before, after, r) ==
    /\ ~r.trimmed
    /\ Range(after) = Range(before) \cup
                        (IF r.err = "insert" THEN {} ELSE {[id |-> r.id, ts |-> r.ts]})

AppendStep(table) == nAppends' = nAppends + 1 /\ ret'.table = table

\* C2, as claimed: an append that takes a table from exactly maxMessages rows
\* to one more triggers one trim that leaves exactly the trimToCount rows of
\* greatest timestamp; an append that leaves at most maxMessages rows deletes
\* nothing.
C2_TrimAtMaxPlusOne ==
    [][ /\ (AppendStep("calls") /\ ret'.err # "insert") =>
            IF ret'.before = maxMessages THEN NewestKept(calls, calls', ret')
            ELSE ret'.before < maxMessages => NothingDeleted(calls, calls', ret')
        /\ (AppendStep("messages") /\ ret'.err # "insert") =>
            IF ret'.before = maxMessages THEN NewestKept(messages, messages', ret')
            ELSE ret'.before < maxMessages => NothingDeleted(messages, messages', ret')
      ]_vars

\* C2, amended: an append that takes a table from exactly maxMessages rows to
\* one more, and whose count query and trim both succeed, triggers one trim
\* that leaves exactly the trimToCount rows of greatest timestamp; an append
\* that leaves at most maxMessages rows deletes nothing.
C2_TrimAtMaxPlusOneOnSuccess ==
    [][ /\ AppendStep("calls") =>
            IF ret'.before = maxMessages /\ ret'.err = "nil"
            THEN NewestKept(calls, calls', ret')
            ELSE ret'.before < maxMessages => NothingDeleted(calls, calls', ret')
        /\ AppendStep("messages") =>
            IF ret'.before = maxMessages /\ ret'.err = "nil"
            THEN NewestKept(messages, messages', ret')
            ELSE ret'.before < maxMessages => NothingDeleted(messages, messages', ret')
      ]_vars

\* the append of row maxMessages + 1 has trimmed the table to trimToCount rows
C2_Witness ==
    /\ ret.table = "calls" /\ ret.before = maxMessages
    /\ ret.trimmed /\ Len(calls) = trimToCount

\* ---- C3 (ClassifySpec)
\* C3, as claimed: the handler of an event the classifier keeps persists it
\* once, which gives it its id, and then starts one broadcast of the record
\* carrying that id; the handler of a dropped event does neither.
C3_PersistedOnceThenBroadcastOnce ==
    [][ HandlerStep =>
        IF inbox.kind \in CallKinds
        THEN /\ callSeq' = callSeq + 1 /\ ret'.id = callSeq'
             /\ pc' = "write" /\ nPub' = nPub + 1 /\ data'.data.ID = ret'.id
        ELSE IF ~Dropped(inbox)
        THEN /\ msgSeq' = msgSeq + 1 /\ ret'.id = msgSeq'
             /\ pc' = "write" /\ nPub' = nPub + 1 /\ data'.data.ID = ret'.id
        ELSE NothingDone
      ]_vars

\* ---- C4 (ClassifySpec)
\* C4: handling a message of the own account changes neither table, starts no
\* broadcast and writes to no connection, whatever the mute state, the
\* mentions, the reply target and the configuration.
C4_SelfMessagesDropped ==
    [][ (HandlerStep /\ inbox.kind = "Message" /\ inbox.isFromMe) => NothingDone ]_vars

\* a message of the own account has been handled while a connection is registered
C4_Witness ==
    verdict = "self" /\ pc = "idle" /\ socketConns # {} /\ nEvents > 0

\* ---- C5 (ClassifySpec)
\* C5: a message that is neither of the own account nor of the status channel
\* is dropped iff its chat is muted, it does not mention the own account, it
\* does not reply to the own account and IncludeMutedMessages is off; else it
\* is kept and its broadcast starts.
C5_MuteRule ==
    [][ (HandlerStep /\ inbox.kind = "Message" /\ ~inbox.isFromMe
                     /\ inbox.server # "broadcast") =>
        IF /\ isMuted(inbox.mute)
           /\ ~isMentioned(inbox.content)
           /\ ~isReplyToMe(inbox.content)
           /\ ~config.IncludeMutedMessages
        THEN NothingDone
        ELSE pc' = "write" /\ nPub' = nPub + 1
      ]_vars

\* a reply to the own account in a muted chat is being broadcast though
\* IncludeMutedMessages is off
C5_Witness ==
    /\ pc = "write" /\ verdict = "kept"
    /\ data.data.IsMuted /\ data.data.IsReplyToMe
    /\ ~config.IncludeMutedMessages

\* ---- C6 (ClassifySpec)
\* C6: a message of the status channel that is not of the own account is
\* dropped when IncludeStatusMessages is off; when it is on, the mute rule
\* decides as for any other chat.
C6_StatusRule ==
    [][ (HandlerStep /\ inbox.kind = "Message" /\ ~inbox.isFromMe
                     /\ inbox.server = "broadcast") =>
        IF ~config.IncludeStatusMessages THEN NothingDone
        ELSE IF /\ isMuted(inbox.mute)
                /\ ~isMentioned(inbox.content)
                /\ ~isReplyToMe(inbox.content)
                /\ ~config.IncludeMutedMessages
        THEN NothingDone
        ELSE pc' = "write" /\ nPub' = nPub + 1
      ]_vars

\* a status message has been dropped by the status rule
C6_Witness ==
    verdict = "status" /\ pc = "idle" /\ ~config.IncludeStatusMessages

\* ---- C7 (Spec)
\* C7: once the loop of a publish has ended, every registered connection has
\* had exactly one Write of the record of that publish, the same bytes for
\* all; no connection ever has two Writes of one publish, nor a Write of a
\* publish started before it registered.
C7_FanOut ==
    /\ pc = "attention" =>
        \A c \in socketConns :
            /\ Copies(c, nPub) = 1
            /\ \A i \in DOMAIN out[c] : out[c][i].n = nPub => out[c][i].bytes = data
    /\ \A c \in Conns : \A i \in DOMAIN out[c] :
            /\ out[c][i].n > regAt[c]
            /\ Copies(c, out[c][i].n) = 1

\* a publish has written to two registered connections, one of which
\* registered after an earlier publish
C7_Witness ==
    /\ pc = "attention"
    /\ Cardinality(socketConns) >= 2
    /\ \E c \in socketConns : regAt[c] > 0 /\ Len(out[c]) = 1
    /\ \E c \in socketConns : Len(out[c]) > 1

\* ---- C8 (ClassifySpec)
\* C8, as claimed: the handler of a call offer or call-offer notice starts the
\* broadcast of a record of type "call", as the handler of a kept message
\* starts that of a record of type "message".
C8_CallsPublished ==
    [][ HandlerStep =>
        /\ inbox.kind \in CallKinds => pc' = "write" /\ data'.type = "call"
        /\ (inbox.kind = "Message" /\ ~Dropped(inbox)) =>
                pc' = "write" /\ data'.type = "message"
      ]_vars

\* ---- C9 (ClassifySpec)
\* C9, as claimed: when the save of a kept event returns an error, the process
\* does not exit and the broadcast of the event's record starts.
C9_SaveFailureStillBroadcast ==
    [][ ( /\ HandlerStep
          /\ inbox.kind \in CallKinds \/ ~Dropped(inbox)
          /\ ret'.err # "nil" ) =>
        /\ exited' = "no"
        /\ pc' = "write" /\ nPub' = nPub + 1
        /\ data'.data.Timestamp = inbox.ts
      ]_vars

\* ---- C10 (FairSpec)
\* C10, as claimed: a failed Write to one connection does not keep the record
\* from being written to every other registered connection, and a connection
\* to which a Write failed is subsequently removed from the registry (as long
\* as the process runs).
C10_FailedPeerRemoved ==
    /\ [](pc = "attention" => \A c \in socketConns : Copies(c, nPub) = 1)
    /\ \A c \in Conns : WriteFailed(c) ~> (c \notin socketConns \/ ~Running)

\* ---- C11 (StallSpec)
\* C11, as claimed: a connection whose remote end has stopped reading does not
\* hold the worker in its Write for ever: while the remote end stays that way
\* the Write ends, the connection leaves the registry and the worker leaves
\* the publish (or the process has exited).
C11_StalledPeerDoesNotStallWorker ==
    \A c \in Conns :
        (pc = "write" /\ c \in socketConns \ visited /\ peer[c] = "stalled")
            ~> \/ pc # "write" /\ c \notin socketConns
               \/ peer[c] # "stalled"
               \/ ~Running

\* ---- C12 (CommandSpec)
\* C12, as claimed: whatever line a connection's remote end sends, handling it
\* makes at most one client.SendMessage call and leaves the connection
\* registered with its loop reading; the loop ends only when the remote end
\* has closed or the read failed.
C12_CommandLoopSurvivesBadLines ==
    [][ \A c \in Conns :
          /\ (nLines' = nLines + 1 /\ lastLine'.conn = c) =>
                /\ sent' \in {sent, sent + 1}
                /\ connPc'[c] = "reading"
                /\ c \in socketConns'
          /\ (connPc[c] = "reading" /\ connPc'[c] # "reading") => peer[c] = "closed"
      ]_vars

\* ---- C13 (StoreSpec)
\* C13, as claimed: every field of a Message or a Call other than the id has a
\* column of its table, so that the save of an event, when the database
\* fails no statement, returns no error and gives the record the next id of
\* its table.
C13_EveryFieldHasItsColumn ==
    [][ /\ AppendStep("messages") =>
            /\ Range(buildInsertParams(MessageFields)) \subseteq MessagesSchema.cols
            /\ \A r \in saveMessage(ret'.ts, "none") :
                    r.err = "nil" /\ r.id = msgSeq + 1
        /\ AppendStep("calls") =>
            /\ Range(buildInsertParams(CallFields)) \subseteq CallsSchema.cols
            /\ \A r \in saveCall(ret'.ts, "none") :
                    r.err = "nil" /\ r.id = callSeq + 1
      ]_vars

\* ---- C14 (SessionSpec)
\* C14, as claimed: when the process has ended with status 0, after a
\* logged-out notification as after SIGINT / SIGTERM, the listener has been
\* closed, its socket file removed and the client disconnected.
C14_LoggedOutShutsDownLikeSignal ==
    exited = "0" => ~ListenerOpen /\ ~SocketFile /\ ~ClientConnected

\* ---- C17 (SessionSpec)
\* C17, as claimed: main is in loginWithQR only when there was no prior
\* session, and while the session is not yet connected no connection is
\* registered and no protocol event is being handled.
C17_PipelineOnlyOnceConnected ==
    /\ mainPc = "authenticating" => ~paired
    /\ mainPc \in {"start", "listening", "authenticating"} =>
            socketConns = {} /\ pc = "idle"

\* ---- C15 (ContentSpec)
Labels == {"[Image]", "[Image] ", "[Video]", "[Video] ", "[Document] ",
           "[Voice Message]", "[Audio]", "[Sticker]", "[Contact] ",
           "[Location]", "[Media/Other]"}

\* C15: the record whose broadcast the handler of a kept message starts (the
\* record handed to saveMessage before) has a text that is not empty: the
\* conversation text or the body of the message, or a text that starts with
\* a placeholder label.
C15_TextNeverEmpty ==
    [][ (HandlerStep /\ inbox.kind = "Message" /\ verdict' = "kept") =>
          /\ data'.data.Text # <<>>
          /\ \/ data'.data.Text = inbox.content.conversation
             \/ \E p \in inbox.content.parts :
                    data'.data.Text = inbox.content.body[p]
             \/ Head(data'.data.Text) \in Labels
      ]_vars

\* a message with nothing to show is being broadcast with the fallback label
C15_Witness ==
    pc = "write" /\ verdict = "kept" /\ data.data.Text = <<"[Media/Other]">>

\* ---- C20 (ContentSpec)
\* a reference names the own account: its user and server are those of the
\* primary identity, or of the linked-device identity when the store has one
SameAccount(ref, jid) == ref[1] = jid.user /\ ref[3] = jid.server
NamesMe(ref) ==
    /\ ref # <<>>
    /\ \/ SameAccount(ref, store.ID)
       \/ ~IsEmpty(store.LID) /\ SameAccount(ref, store.LID)
MentionsMe(msg) ==
    \E i \in DOMAIN getContextInfo(msg).mentions :
        NamesMe(getContextInfo(msg).mentions[i])
RepliesToMe(msg) == NamesMe(getContextInfo(msg).participant)

C16_PublishOrderKept ==
    \A c \in Conns : \A i, j \in DOMAIN out[c] :
        i < j => out[c][i].n < out[c][j].n

\* a connection has been written the records of two publishes
C16_Witness ==
    \E c \in Conns :
        /\ Len(out[c]) = 2
        /\ out[c][1].ok /\ out[c][2].ok
        /\ out[c][1].n = 1 /\ out[c][2].n = 2

\* ---- C18 (Spec)
\* C18: from the RLock of a publish to its return the registry does not
\* change, the loop visits registered connections only, and when it ends it
\* has visited exactly the registered ones; a register or unregister asked
\* for meanwhile waits.
C18_PeerSetFixedDuringPublish ==
    [][ /\ RLocked => socketConns' = socketConns
        /\ pc' = "write" => visited' \subseteq socketConns'
        /\ pc' = "attention" => visited' = socketConns'
      ]_vars

\* during a publish one connection waits to register and another, still
\* registered, waits to unregister
C18_Witness ==
    /\ pc = "write"
    /\ \E c \in Conns : connPc[c] = "accepted" /\ c \notin socketConns
    /\ \E c \in Conns : connPc[c] = "deferred" /\ c \in socketConns

\* ---- C19 (StoreSpec)
\* C19: an append to a table that held more than maxMessages rows, when it
\* returns without error, has trimmed the table to exactly trimToCount rows.
C19_OverCapTrimmedByNextAppend ==
    [][ /\ (AppendStep("calls") /\ ret'.before > maxMessages /\ ret'.err = "nil") =>
                ret'.trimmed /\ Len(calls') = trimToCount
        /\ (AppendStep("messages") /\ ret'.before > maxMessages /\ ret'.err = "nil") =>
                ret'.trimmed /\ Len(messages') = trimToCount
      ]_vars

\* an append to a table left above the limit has trimmed it
C19_Witness ==
    /\ ret.table = "calls" /\ ret.before > maxMessages /\ ret.err = "nil"
    /\ Len(calls) = trimToCount

\* ---- C21 (ContentSpec)
\* the order in which the parts of a message are looked for
PartOrder == <<"ext", "image", "video", "document", "audio", "sticker",
               "contact", "location">>
\* the part of the message that comes first in that order ("none": no part)
FirstPart(msg) ==
    LET at == {i \in DOMAIN PartOrder : PartOrder[i] \in msg.parts}
    IN  IF at = {} THEN "none"
        ELSE PartOrder[CHOOSE i \in at : \A j \in at : i <= j]

\* text t is the display text of message m by the rules for the conversation
\* text, the extended text, image, video, document, audio, sticker and
\* location
ResolvedByOrder(m, t) ==
    LET first == FirstPart(m)
        own == IF first \in m.parts THEN m.body[first] ELSE <<>>
    IN  /\ m.conversation # <<>> => t = m.conversation
        /\ m.conversation = <<>> =>
            /\ (first = "ext" /\ own # <<>>) => t = own
            /\ first = "image" =>
                    t = IF own # <<>> THEN <<"[Image] ">> \o own ELSE <<"[Image]">>
            /\ first = "video" =>
                    t = IF own # <<>> THEN <<"[Video] ">> \o own ELSE <<"[Video]">>
            /\ first = "document" => t = <<"[Document] ">> \o own
            /\ first = "audio" =>
                    t = IF m.ptt THEN <<"[Voice Message]">> ELSE <<"[Audio]">>
            /\ first = "sticker" => t = <<"[Sticker]">>
            /\ first = "location" => t = <<"[Location]">>

ContactFirst(m) ==
    ~m.nil /\ m.conversation = <<>> /\ FirstPart(m) = "contact"

\* C21, as claimed: the text of the record of a kept message is resolved by
\* first match in a fixed order: a conversation or extended text that is not
\* empty as it is; else "[Image] c" / "[Image]", "[Video] c" / "[Video]",
\* "[Document] name", "[Voice Message]" / "[Audio]", and for a sticker, a
\* contact and a location a label that does not depend on the message.
C21_TextResolution ==
    [][ (HandlerStep /\ inbox.kind = "Message" /\ verdict' = "kept"
                     /\ ~inbox.content.nil) =>
          /\ ResolvedByOrder(inbox.content, data'.data.Text)
          /\ ContactFirst(inbox.content) =>
                data'.data.Text \in {<<"[Contact]">>, <<"[Contact] ">>}
      ]_vars

\* C21, amended: as claimed, except that a contact resolves to "[Contact] "
\* followed by its display name.
C21_TextResolutionContactNamed ==
    [][ (HandlerStep /\ inbox.kind = "Message" /\ verdict' = "kept"
                     /\ ~inbox.content.nil) =>
          /\ ResolvedByOrder(inbox.content, data'.data.Text)
          /\ ContactFirst(inbox.content) =>
                data'.data.Text = <<"[Contact] ">> \o inbox.content.body["contact"]
      ]_vars

\* the record of a message with an image and a part that comes later in the
\* order, resolved as an image, is being broadcast
C21_Witness ==
    pc = "write" /\ verdict = "kept" /\ data.data.Text = <<"[Image] ", "image">>

\* ---- C22 (Spec)
\* C22: a registered connection is one whose handler is in its loop or about
\* to unregister it; a connection is out of the registry when its handler
\* closes it, and no Write is made on a connection the handler has closed.
C22_UnregisteredBeforeClosed ==
    [][ \A c \in Conns :
          /\ c \in socketConns' => connPc'[c] \in {"reading", "deferred"}
          /\ (connPc[c] # "closed" /\ connPc'[c] = "closed") =>
                c \notin socketConns /\ connPc[c] = "unregistered"
          /\ out'[c] # out[c] => connPc[c] # "closed" /\ connPc'[c] # "closed"
      ]_vars

\* a publish is writing after the handler of a connection that had been
\* written to has unregistered and closed it
C22_Witness ==
    /\ pc = "write"
    /\ \E c \in Conns :
          connPc[c] = "closed" /\ c \notin socketConns /\ out[c] # <<>>

\* ---- C23 (SessionSpec)
\* main has left its startup: the socket server runs and Connect has returned
Started == mainPc \notin {"start", "listening"}

\* C23: once main has left its startup, a step in which saveMessage or
\* saveCall returns an error, or in which a Write fails, leaves the process
\* running, and the process ends with status 1 only in the attention step of
\* a publish, when every registered connection has been written that message.
C23_OnlyAttentionFailureExits ==
    [][ /\ (HandlerStep /\ verdict' \in {"kept", "call"} /\ ret'.err # "nil") =>
                exited' = "no"
        /\ (\E c \in Conns : out'[c] # out[c] /\ ~out'[c][Len(out'[c])].ok) =>
                exited' = "no"
        /\ (Started /\ exited = "no" /\ exited' = "1") =>
                /\ pc = "attention"
                /\ verdict = "kept"
                /\ \A c \in socketConns : Copies(c, nPub) = 1
      ]_vars

\* the process has ended with status 1 after a message whose save failed and
\* whose Write to a registered connection failed
C23_Witness ==
    /\ Started
    /\ exited = "1"
    /\ ret.table = "messages" /\ ret.err # "nil"
    /\ \E c \in socketConns :
          Copies(c, nPub) = 1 /\ ~out[c][Len(out[c])].ok

====
